---- MODULE Spec2Model ----
(***************************************************************************)
(* A model of ytdashboardstreamlit.py: the Streamlit script that loads the *)
(* "Global YouTube Statistics" table, derives four columns, filters the    *)
(* table by the sidebar widgets and renders tables and statistics from the *)
(* filtered view.  Every user interaction re-runs the whole script, so one *)
(* action of the model is one widget change followed by one full run.      *)
(*                                                                         *)
(* Numbers are pandas float64 cells: NaN, +inf or an exact rational n/d.   *)
(* A DataFrame is a sequence of rows; every row carries its index label.   *)
(* Charts, the search box, the channel comparison and the two button       *)
(* blocks (random spotlight, trivia) only read filtered_df and draw; they  *)
(* are not modelled.                                                       *)
(***************************************************************************)
EXTENDS Integers, Sequences, FiniteSets, TLC

\* ------------------------------------------------------------------ bounds
\* Largest number of rows of the CSV file.
MaxRows == 3
\* Largest number of script runs of one session (the first run included).
MaxRuns == 2
\* The most rewrites of the CSV file on disk considered.
MaxEdits == 1
\* The most restarts of the server process considered.
MaxRestarts == 1

\* ------------------------------------------------------- program constants
MILLION == 1000000
BILLION == 1000000000
THOUSAND == 1000
PERCENT == 100
TOP15 == 15
TOP10 == 10
TOP20 == 20

\* ------------------------------------------------------------ float cells
NaN == [k |-> "nan", n |-> 0, d |-> 1]
Inf == [k |-> "inf", n |-> 0, d |-> 1]

RECURSIVE GCD(_, _)
GCD(a, b) == IF b = 0 THEN a ELSE GCD(b, a % b)

\* The rational n/d (n >= 0, d > 0) in lowest terms.
Frac(n, d) ==
    LET g == GCD(n, d) IN [k |-> "num", n |-> n \div g, d |-> d \div g]

Num(n) == [k |-> "num", n |-> n, d |-> 1]

\* A cell of the CSV file that does not parse as a number.
BadCell == [k |-> "bad", n |-> 0, d |-> 1]

\* A missing string cell (pandas reads an empty cell as NaN).
NA == "<NA>"

isna(x) == x.k = "nan"
notna(x) == x.k # "nan"

\* x + y on float64 cells (operands are never negative here).
FAdd(x, y) ==
    IF isna(x) \/ isna(y) THEN NaN
    ELSE IF x.k = "inf" \/ y.k = "inf" THEN Inf
    ELSE Frac(x.n * y.d + y.n * x.d, x.d * y.d)

\* x / y on float64 cells, as numpy divides: 0/0 is NaN, x/0 is inf.
FDiv(x, y) ==
    IF isna(x) \/ isna(y) THEN NaN
    ELSE IF x.k = "inf" /\ y.k = "inf" THEN NaN
    ELSE IF x.k = "inf" THEN Inf
    ELSE IF y.k = "inf" THEN Num(0)
    ELSE IF y.n = 0 THEN (IF x.n = 0 THEN NaN ELSE Inf)
    ELSE Frac(x.n * y.d, x.d * y.n)

\* x * c for a positive integer c.
FScale(x, c) ==
    IF x.k = "num" THEN Frac(x.n * c, x.d) ELSE x

\* x >= y: every comparison with NaN is False.
FGe(x, y) ==
    IF isna(x) \/ isna(y) THEN FALSE
    ELSE IF x.k = "inf" THEN TRUE
    ELSE IF y.k = "inf" THEN FALSE
    ELSE x.n * y.d >= y.n * x.d

FLe(x, y) == FGe(y, x)
FGt(x, y) == FGe(x, y) /\ ~FGe(y, x)

\* int(x / unit) for a finite x >= 0: truncation.
IntDiv(x, unit) == (x.n \div x.d) \div unit

\* ------------------------------------------------------------- load_data
numeric_cols ==
    {"video_views", "uploads", "subscribers",
     "video_views_for_the_last_30_days", "lowest_monthly_earnings",
     "highest_monthly_earnings", "lowest_yearly_earnings",
     "highest_yearly_earnings"}

\* pd.to_numeric(errors="coerce") on one cell.
to_numeric(cell) == IF cell.k = "num" THEN cell ELSE NaN

\* The row after the numeric coercion of lines 23-24.
Coerce(raw) ==
    [c \in DOMAIN raw |->
        IF c \in numeric_cols THEN to_numeric(raw[c]) ELSE raw[c]]

avg_monthly_earnings(r) ==
    FDiv(FAdd(r.lowest_monthly_earnings, r.highest_monthly_earnings), Num(2))

avg_yearly_earnings(r) ==
    FDiv(FAdd(r.lowest_yearly_earnings, r.highest_yearly_earnings), Num(2))

views_per_video(r) == FDiv(r.video_views, r.uploads)

engagement_rate(r) ==
    FScale(FDiv(r.video_views_for_the_last_30_days, r.video_views), PERCENT)

\* One row of the frame load_data returns: RangeIndex label i - 1, the
\* coerced columns and the four calculated fields.
LoadRow(raw, i) ==
    LET r == Coerce(raw) IN
    [index |-> i - 1,
     youtuber |-> r.youtuber,
     country |-> r.country,
     channel_type |-> r.channel_type,
     subscribers |-> r.subscribers,
     video_views |-> r.video_views,
     uploads |-> r.uploads,
     video_views_for_the_last_30_days |-> r.video_views_for_the_last_30_days,
     lowest_monthly_earnings |-> r.lowest_monthly_earnings,
     highest_monthly_earnings |-> r.highest_monthly_earnings,
     lowest_yearly_earnings |-> r.lowest_yearly_earnings,
     highest_yearly_earnings |-> r.highest_yearly_earnings,
     avg_monthly_earnings |-> avg_monthly_earnings(r),
     avg_yearly_earnings |-> avg_yearly_earnings(r),
     views_per_video |-> views_per_video(r),
     engagement_rate |-> engagement_rate(r)]

\* The body of load_data on the rows of the CSV file.
load_data(csv) == [i \in 1..Len(csv) |-> LoadRow(csv[i], i)]

\* ------------------------------------------------------- the CSV file
Raw(name, country, type, subs, views, ups, v30, lme, hme, lye, hye) ==
    [youtuber |-> name, country |-> country, channel_type |-> type,
     subscribers |-> subs, video_views |-> views, uploads |-> ups,
     video_views_for_the_last_30_days |-> v30,
     lowest_monthly_earnings |-> lme, highest_monthly_earnings |-> hme,
     lowest_yearly_earnings |-> lye, highest_yearly_earnings |-> hye]

\* The rows a CSV file is drawn from.  A and C are complete; B has an
\* unparsable subscriber count; D has no name, country or channel type,
\* zero views and uploads, C's subscriber count and earnings that are no
\* multiple of 1000; E has no view count and no highest monthly earnings;
\* F has a country and a channel type but no name and no lowest monthly
\* earnings, and A's subscriber count.
RowA == Raw("A", "US", "Music", Num(1000000), Num(1000000000), Num(2),
            Num(500000000), Num(500), Num(1000), Num(6000), Num(12000))
RowB == Raw("B", "US", "Games", BadCell, Num(100000000), Num(4),
            Num(50000000), Num(100), Num(500), Num(1200), Num(6000))
RowC == Raw("C", "IN", "Music", Num(2000000), Num(1000000000), Num(0),
            Num(250000000), Num(1001), Num(2000), Num(12000), Num(24000))
RowD == Raw(NA, NA, NA, Num(2000000), Num(0), Num(0),
            Num(5), NaN, Num(1500), Num(0), NaN)
RowE == Raw("E", "IN", NA, Num(1000000), NaN, Num(5),
            Num(1000), Num(2001), NaN, BadCell, Num(30000))

RowF == Raw(NA, "US", "Games", Num(1000000), Num(10000000), Num(10),
            Num(1000000), NaN, Num(1000), Num(2400), Num(12000))

Pool == {RowA, RowB, RowC, RowD, RowE, RowF}

\* Sequences of distinct rows of the pool, of length 1..n.
RECURSIVE Arrangements(_, _)
Arrangements(S, n) ==
    IF n = 0 THEN {<<>>}
    ELSE LET shorter == Arrangements(S, n - 1) IN
         shorter \cup
         {Append(t, r) : <<t, r>> \in
             {x \in shorter \X S :
                 /\ Len(x[1]) = n - 1
                 /\ \A i \in 1..Len(x[1]) : x[1][i] # x[2]}}

\* ------------------------------------------------------ column reductions
Col(f, c) == [i \in 1..Len(f) |-> f[i][c]]

RECURSIVE FSum(_)
\* Series.sum(): NaN cells are skipped, the sum of nothing is 0.
FSum(xs) ==
    IF xs = <<>> THEN Num(0)
    ELSE IF isna(Head(xs)) THEN FSum(Tail(xs))
    ELSE FAdd(Head(xs), FSum(Tail(xs)))

\* Series.count(): the number of cells that are not NaN.
FCount(xs) == Cardinality({i \in 1..Len(xs) : notna(xs[i])})

\* Series.mean(): over the cells that are not NaN; NaN when there are none.
FMean(xs) ==
    IF FCount(xs) = 0 THEN NaN ELSE FDiv(FSum(xs), Num(FCount(xs)))

\* Series.max() / Series.min(): NaN cells skipped, NaN when there are none.
FMax(xs) ==
    LET P == {i \in 1..Len(xs) : notna(xs[i])} IN
    IF P = {} THEN NaN
    ELSE xs[CHOOSE i \in P : \A j \in P : FGe(xs[i], xs[j])]

FMin(xs) ==
    LET P == {i \in 1..Len(xs) : notna(xs[i])} IN
    IF P = {} THEN NaN
    ELSE xs[CHOOSE i \in P : \A j \in P : FLe(xs[i], xs[j])]

\* The positions P of frame f ordered by column c, largest first; among
\* equal cells the position with the smaller tie[i] comes first.
RECURSIVE Descending(_, _, _, _)
Descending(f, c, tie, P) ==
    IF P = {} THEN <<>>
    ELSE LET i == CHOOSE i \in P : \A j \in P \ {i} :
                      \/ FGt(f[i][c], f[j][c])
                      \/ (~FGt(f[j][c], f[i][c]) /\ tie[i] < tie[j])
         IN <<i>> \o Descending(f, c, tie, P \ {i})

\* Series.median(): the middle of the sorted cells that are not NaN.
FMedian(xs) ==
    LET f == [i \in 1..Len(xs) |-> [v |-> xs[i]]]
        P == {i \in 1..Len(xs) : notna(xs[i])}
        o == Descending(f, "v", [i \in 1..Len(xs) |-> i], P)
        m == Len(o)
    IN IF m = 0 THEN NaN
       ELSE IF m % 2 = 1 THEN xs[o[(m + 1) \div 2]]
       ELSE FDiv(FAdd(xs[o[m \div 2]], xs[o[m \div 2 + 1]]), Num(2))

\* frame.head(n)
head(f, n) == IF Len(f) <= n THEN f ELSE SubSeq(f, 1, n)

\* The rows of f at the positions o, in that order (frame.take).
take(f, o) == [k \in 1..Len(o) |-> f[o[k]]]

\* The positions of the rows whose cell in column c is NaN, in frame order.
NanPositions(f, c) ==
    LET P == {i \in 1..Len(f) : isna(f[i][c])} IN
    Descending([i \in 1..Len(f) |-> [v |-> Num(0)]], "v",
               [i \in 1..Len(f) |-> i], P)

\* Series.sort_values(ascending=False): the default kind is quicksort, which
\* is not stable, so the order among equal cells is any order: here the
\* one the ranking `order` of the index labels gives.  NaN rows come last,
\* in frame order.
sort_values_desc(f, c, order) ==
    LET P == {i \in 1..Len(f) : notna(f[i][c])}
        tie == [i \in 1..Len(f) |-> order[f[i].index]]
    IN take(f, Descending(f, c, tie, P) \o NanPositions(f, c))

\* nlargest with the NaN rows put first instead of last.
nlargestMissingFirst(f, n, c, order) ==
    LET P == {i \in 1..Len(f) : notna(f[i][c])}
        stable == [i \in 1..Len(f) |-> i]
    IN head(take(f, NanPositions(f, c) \o Descending(f, c, stable, P)), n)

\* DataFrame.nlargest(n, c), keep="first" (pandas SelectNSeries.compute).
\* n >= len(frame): sort_values(ascending=False).head(n).  Otherwise the
\* rows that are not NaN in a stable (mergesort) descending order, then the
\* NaN rows, cut to n.
nlargest(f, n, c, order) ==
    IF n <= 0 THEN <<>>
    ELSE IF n >= Len(f) THEN head(sort_values_desc(f, c, order), n)
    ELSE LET P == {i \in 1..Len(f) : notna(f[i][c])}
             stable == [i \in 1..Len(f) |-> i]
         IN head(take(f, Descending(f, c, stable, P) \o NanPositions(f, c)), n)

\* ------------------------------------------------------------ formatting
\* p/q rounded to an integer the way Python's format rounds: half to even.
RoundHalfEven(p, q) ==
    LET fl == p \div q
        rem == p % q
    IN IF 2 * rem > q THEN fl + 1
       ELSE IF 2 * rem < q THEN fl
       ELSE IF fl % 2 = 0 THEN fl ELSE fl + 1

\* A formatted cell: the text is the number n / d followed (or preceded) by
\* the unit k; d = 0 marks the texts "nan" (n = -1) and "inf" (n = -2).
Text(unit, x, p, q, d) ==
    IF isna(x) THEN [k |-> unit, n |-> -1, d |-> 0]
    ELSE IF x.k = "inf" THEN [k |-> unit, n |-> -2, d |-> 0]
    ELSE [k |-> unit, n |-> RoundHalfEven(p, q), d |-> d]

\* f"{x/1000000:.1f}M"
FmtMillions(x) == Text("M", x, x.n, x.d * (MILLION \div 10), 10)
\* f"${x:,.0f}"
FmtMoney(x) == Text("$", x, x.n, x.d, 1)
\* f"{x:.1f}%"
FmtPercent(x) == Text("%", x, x.n * 10, x.d, 10)
\* "N/A"
NotAvailable == [k |-> "N/A", n |-> 0, d |-> 0]

\* ---------------------------------------------------------- the script
\* The variables of one script run.  A run starts with none of them
\* assigned; a statement that is not reached leaves its variable as here.
Unset ==
    [df |-> <<>>, countries |-> {}, channel_types |-> {},
     subs_max |-> 0, views_max |-> 0, earnings_max |-> 0,
     filtered_df |-> <<>>,
     avg_subs |-> NaN, avg_earnings |-> NaN, avg_views |-> NaN,
     avg_engagement |-> NaN,
     top15 |-> <<>>, top_earners |-> <<>>, top_channels |-> <<>>,
     leaderboard_display |-> <<>>,
     unique_countries |-> 0, most_common_country |-> NA,
     total_monthly_earnings |-> NaN, median_earnings |-> NaN,
     total_videos |-> NaN, avg_videos_per_channel |-> NaN,
     subscriber_range |-> <<NaN, NaN>>, upload_range |-> <<NaN, NaN>>,
     min_earn |-> NaN, max_earn |-> NaN,
     country_stats |-> <<>>, category_stats |-> <<>>,
     exc |-> "none", line |-> 0]

\* The options of the leaderboard selectbox, in the order of the list.
LeaderboardTypes ==
    {"Most Subscribers", "Most Views", "Most Videos", "Highest Earners",
     "Best Engagement", "Most Efficient"}

\* df[c].dropna().unique(): the values of a string column that are present.
Present(f, c) == {f[i][c] : i \in {j \in 1..Len(f) : f[j][c] # NA}}

\* Lines 58-72: the options of the two multiselects and the upper ends of
\* the three sliders.
Sidebar(env) ==
    [env EXCEPT
        !.countries = Present(env.df, "country"),
        !.channel_types = Present(env.df, "channel_type"),
        !.subs_max = IntDiv(FMax(Col(env.df, "subscribers")), MILLION),
        !.views_max = IntDiv(FMax(Col(env.df, "video_views")), BILLION),
        !.earnings_max =
            IntDiv(FMax(Col(env.df, "highest_monthly_earnings")), THOUSAND)]

\* frame[frame[c].isin(values)]
isin(f, c, values) == SelectSeq(f, LAMBDA r : r[c] \in values)

\* FilterCountries without the test of line 76: an empty selection shows
\* no row.
FilterCountriesAlways(f, selected_countries) ==
    isin(f, "country", selected_countries)

\* Lines 76-77.
FilterCountries(f, selected_countries) ==
    IF selected_countries # {} THEN isin(f, "country", selected_countries)
    ELSE f

\* Lines 78-79.
FilterTypes(f, selected_types) ==
    IF selected_types # {} THEN isin(f, "channel_type", selected_types)
    ELSE f

\* SubsMask with > written for >=.
SubsMaskStrict(r, bound) == FGt(r.subscribers, Num(bound))

\* Line 82: the row's subscribers against a bound in subscribers.
SubsMask(r, bound) == FGe(r.subscribers, Num(bound))

\* Line 83: the row's video views against a bound in views.
ViewsMask(r, bound) == FGe(r.video_views, Num(bound))

\* Lines 84-85: the row's highest monthly earnings against two bounds in $.
EarningsMask(r, low, high) ==
    /\ FGe(r.highest_monthly_earnings, Num(low))
    /\ FLe(r.highest_monthly_earnings, Num(high))

\* The boolean mask of lines 82-85 on one row: the slider values scaled to
\* units and the three comparisons joined by &.
NumericMask(r, min_subs, min_views, earnings_range) ==
    /\ SubsMask(r, min_subs * MILLION)
    /\ ViewsMask(r, min_views * BILLION)
    /\ EarningsMask(r, earnings_range[1] * THOUSAND,
                    earnings_range[2] * THOUSAND)

\* FilterNumeric followed by a sort of the kept rows by subscribers, largest
\* first.
FilterNumericSorted(f, min_subs, min_views, earnings_range) ==
    LET kept == SelectSeq(f, LAMBDA r :
                    NumericMask(r, min_subs, min_views, earnings_range))
    IN take(kept, Descending(kept, "subscribers", [i \in 1..Len(kept) |-> i],
                             1..Len(kept)))

\* Lines 81-86.
FilterNumeric(f, min_subs, min_views, earnings_range) ==
    SelectSeq(f, LAMBDA r : NumericMask(r, min_subs, min_views, earnings_range))

\* ApplyFilters with line 79 reading df instead of filtered_df: the country
\* selection is lost whenever a channel type is selected.
ApplyFiltersTypesFromBase(f, w) ==
    FilterNumeric(
        IF w.selected_types # {} THEN FilterTypes(f, w.selected_types)
        ELSE FilterCountries(f, w.selected_countries),
        w.min_subs, w.min_views, w.earnings_range)

\* Lines 75-86: the filtered view of frame f under the criteria w.
ApplyFilters(f, w) ==
    FilterNumeric(
        FilterTypes(FilterCountries(f, w.selected_countries), w.selected_types),
        w.min_subs, w.min_views, w.earnings_range)

\* Lines 75-86 as a statement of the script.
Filter(env, w) == [env EXCEPT !.filtered_df = ApplyFilters(env.df, w)]

\* Lines 100-129: the four means of the KPI row.
KPI(env) ==
    [env EXCEPT
        !.avg_subs = FMean(Col(env.filtered_df, "subscribers")),
        !.avg_earnings = FMean(Col(env.filtered_df, "avg_monthly_earnings")),
        !.avg_views = FMean(Col(env.filtered_df, "video_views")),
        !.avg_engagement = FMean(Col(env.filtered_df, "engagement_rate"))]

\* Line 191.
Overview(env, order) ==
    [env EXCEPT !.top15 = nlargest(env.filtered_df, TOP15, "subscribers", order)]

\* ------------------------------------------------------------- group-by
\* The rows of frame f whose column c holds the group value v.  groupby
\* drops the rows whose group value is missing.
get_group(f, c, v) == SelectSeq(f, LAMBDA r : r[c] = v)

\* The aggregation 'count' on a string column: the cells that are present.
agg_count(xs) == Cardinality({i \in 1..Len(xs) : xs[i] # NA})

RECURSIVE Pow10(_)
Pow10(n) == IF n = 0 THEN 1 ELSE 10 * Pow10(n - 1)

\* DataFrame.round(decimals) on one cell: NaN and inf stay as they are.
round(x, decimals) ==
    IF x.k # "num" THEN x
    ELSE Frac(RoundHalfEven(x.n * Pow10(decimals), x.d), Pow10(decimals))

\* The first row of frame f whose column c holds v.
first_of(f, c, v) ==
    CHOOSE i \in 1..Len(f) : f[i][c] = v /\ \A j \in 1..(i - 1) : f[j][c] # v

\* sort_values('Channel Count', ascending=False) on the rows stats[v],
\* v in K: largest count first, equal counts in the order of rank.
RECURSIVE sort_by_count(_, _, _)
sort_by_count(stats, rank, K) ==
    IF K = {} THEN <<>>
    ELSE LET v == CHOOSE v \in K : \A u \in K \ {v} :
                      \/ stats[v].Channel_Count > stats[u].Channel_Count
                      \/ /\ stats[v].Channel_Count = stats[u].Channel_Count
                         /\ rank[v] < rank[u]
         IN <<stats[v]>> \o sort_by_count(stats, rank, K \ {v})

\* Lines 233-239: per country of the view the number of names and the mean
\* subscriber count and monthly earnings, rounded to whole numbers, the
\* countries with the most names first, fifteen of them at most.
CountryStats(env, order) ==
    LET f == env.filtered_df
        keys == Present(f, "country")
        stats == [v \in keys |->
                    LET g == get_group(f, "country", v) IN
                    [country |-> v,
                     Channel_Count |-> agg_count(Col(g, "youtuber")),
                     Avg_Subscribers |-> round(FMean(Col(g, "subscribers")), 0),
                     Avg_Monthly_Earnings |->
                         round(FMean(Col(g, "avg_monthly_earnings")), 0)]]
        rank == [v \in keys |-> order[f[first_of(f, "country", v)].index]]
    IN [env EXCEPT !.country_stats = head(sort_by_count(stats, rank, keys), TOP15)]

\* Lines 534-549: per channel type of the view the number of names, mean,
\* median and largest subscriber count, mean and median monthly earnings
\* and mean uploads, rounded to two decimals and then written as text.
CategoryStats(env) ==
    LET f == env.filtered_df
        money(x) == IF notna(x) THEN FmtMoney(x) ELSE NotAvailable
    IN [env EXCEPT !.category_stats =
           [v \in Present(f, "channel_type") |->
               LET g == get_group(f, "channel_type", v)
                   subs == Col(g, "subscribers")
                   earn == Col(g, "avg_monthly_earnings")
               IN [Count |-> agg_count(Col(g, "youtuber")),
                   Avg_Subscribers |-> FmtMillions(round(FMean(subs), 2)),
                   Median_Subscribers |-> FmtMillions(round(FMedian(subs), 2)),
                   Max_Subscribers |-> FmtMillions(round(FMax(subs), 2)),
                   Avg_Earnings |-> money(round(FMean(earn), 2)),
                   Median_Earnings |-> money(round(FMedian(earn), 2)),
                   Avg_Videos |-> round(FMean(Col(g, "uploads")), 2)]]]

\* TopEarners with the two rewrites of lines 301-302 made on df itself.
TopEarnersInPlace(env, order) ==
    LET top == nlargest(env.filtered_df, TOP10, "avg_monthly_earnings", order)
    IN [env EXCEPT
           !.top_earners = top,
           !.df = [i \in 1..Len(env.df) |->
                      [env.df[i] EXCEPT
                          !.subscribers = FmtMillions(@),
                          !.avg_monthly_earnings = FmtMoney(@)]]]

\* Lines 298-302: the ten top earners, five columns of them, the two
\* numeric columns rewritten as text in the new frame.
TopEarners(env, order) ==
    LET top == nlargest(env.filtered_df, TOP10, "avg_monthly_earnings", order)
    IN [env EXCEPT !.top_earners =
           [i \in 1..Len(top) |->
               [index |-> top[i].index,
                youtuber |-> top[i].youtuber,
                country |-> top[i].country,
                channel_type |-> top[i].channel_type,
                subscribers |-> FmtMillions(top[i].subscribers),
                avg_monthly_earnings |-> FmtMoney(top[i].avg_monthly_earnings)]]]

\* Lines 356-378: the column each leaderboard ranks by.
LeaderboardColumn(leaderboard_type) ==
    CASE leaderboard_type = "Most Subscribers" -> "subscribers"
      [] leaderboard_type = "Most Views" -> "video_views"
      [] leaderboard_type = "Most Videos" -> "uploads"
      [] leaderboard_type = "Highest Earners" -> "avg_monthly_earnings"
      [] leaderboard_type = "Best Engagement" -> "engagement_rate"
      [] leaderboard_type = "Most Efficient" -> "views_per_video"

\* Lines 395-403: the text of one leaderboard cell.
LeaderboardCell(col, x) ==
    IF col \in {"subscribers", "video_views", "views_per_video"}
    THEN (IF notna(x) THEN FmtMillions(x) ELSE NotAvailable)
    ELSE IF col = "avg_monthly_earnings"
    THEN (IF notna(x) THEN FmtMoney(x) ELSE NotAvailable)
    ELSE IF col = "engagement_rate"
    THEN (IF notna(x) THEN FmtPercent(x) ELSE NotAvailable)
    ELSE x

\* Lines 356-405: the twenty top channels and the table shown for them,
\* ranked from 1, built only when there is a top channel.
Leaderboard(env, w, order) ==
    LET col == LeaderboardColumn(w.leaderboard_type)
        top == nlargest(env.filtered_df, TOP20, col, order)
    IN [env EXCEPT
           !.top_channels = top,
           !.leaderboard_display =
               IF top # <<>>
               THEN [i \in 1..Len(top) |->
                        [Rank |-> i,
                         youtuber |-> top[i].youtuber,
                         country |-> top[i].country,
                         column |-> col,
                         value |-> LeaderboardCell(col, top[i][col]),
                         channel_type |-> top[i].channel_type]]
               ELSE <<>>]

\* Series.value_counts() of a string column, as the keys with the largest
\* count: the sort by count is not stable, so the key at index[0] is any
\* of them; here the one whose first row ranks first in `order`.
MostCommon(f, c, order) ==
    LET keys == Present(f, c)
        count(v) == Cardinality({i \in 1..Len(f) : f[i][c] = v})
        first(v) == CHOOSE i \in 1..Len(f) :
                        f[i][c] = v /\ \A j \in 1..(i - 1) : f[j][c] # v
        best == {v \in keys : \A u \in keys : count(v) >= count(u)}
    IN CHOOSE v \in best :
           \A u \in best : order[f[first(v)].index] <= order[f[first(u)].index]

\* Lines 431-456.  value_counts() drops the missing countries, so index[0]
\* raises IndexError when no row of the view has a country, and the run
\* ends there.
FunFacts(env, order) ==
    LET f == env.filtered_df
        e1 == [env EXCEPT !.unique_countries = Cardinality(Present(f, "country"))]
    IN IF Present(f, "country") = {}
       THEN [e1 EXCEPT !.exc = "IndexError", !.line = 434]
       ELSE [e1 EXCEPT
               !.most_common_country = MostCommon(f, "country", order),
               !.total_monthly_earnings = FSum(Col(f, "avg_monthly_earnings")),
               !.median_earnings = FMedian(Col(f, "avg_monthly_earnings")),
               !.total_videos = FSum(Col(f, "uploads")),
               !.avg_videos_per_channel = FMean(Col(f, "uploads"))]

\* Lines 519-529: the smallest and largest subscriber and upload counts,
\* and those of the monthly earnings when one is present.
DataRanges(env) ==
    LET f == env.filtered_df
        earn == Col(f, "avg_monthly_earnings")
        any == \E i \in 1..Len(earn) : notna(earn[i])
    IN [env EXCEPT
           !.subscriber_range = <<FMin(Col(f, "subscribers")),
                                  FMax(Col(f, "subscribers"))>>,
           !.upload_range = <<FMin(Col(f, "uploads")), FMax(Col(f, "uploads"))>>,
           !.min_earn = IF any THEN FMin(earn) ELSE @,
           !.max_earn = IF any THEN FMax(earn) ELSE @]

\* What follows a statement: nothing once an exception was raised.
Then(env, next) == IF env.exc # "none" THEN env ELSE next

\* One run of the script on the base table d, with the widget values w and
\* the tie order the sorts of this run produce.
Script(d, w, order) ==
    LET e1 == Sidebar([Unset EXCEPT !.df = d])
        e2 == Filter(e1, w)
        e3 == KPI(e2)
        e4 == Overview(e3, order)
        e5 == TopEarners(CountryStats(e4, order), order)
        e6 == Leaderboard(e5, w, order)
        e7 == FunFacts(e6, order)
    IN Then(e7, CategoryStats(DataRanges(e7)))

\* ------------------------------------------------------------- the state
VARIABLES
    file,       \* the rows of "Global YouTube Statistics.csv" on disk
    cache,      \* st.cache_data's entry for load_data: <<>> or <<frame>>
    widgets,    \* the session's widget values
    env,        \* the script variables as the last run left them
    runs,       \* the number of script runs of the session so far
    parses,     \* how many times the body of load_data has run, in all
    on_disk,    \* the file as it was on disk when the last run started
    edits,      \* the number of rewrites of the file so far
    restarts    \* the number of restarts of the server process so far

vars == <<file, cache, widgets, env, runs, parses, on_disk, edits, restarts>>

\* The script's names for the two frames the claims are about.
df == env.df
filtered_df == env.filtered_df

\* The index labels of a frame.
Labels(f) == {f[i].index : i \in 1..Len(f)}

\* The tie orders the sorts of one run can produce on the rows of frame f:
\* the rankings of its index labels.
Orders(f) ==
    {o \in [Labels(f) -> 1..Len(f)] :
        \A i, j \in Labels(f) : i # j => o[i] # o[j]}

\* The CSV files considered: one to MaxRows distinct rows of the pool, with
\* all three sliders of the sidebar having a range to move in.
SourceFiles ==
    {t \in Arrangements(Pool, MaxRows) :
        /\ Len(t) >= 1
        /\ LET e == Sidebar([Unset EXCEPT !.df = load_data(t)])
           IN e.subs_max >= 1 /\ e.views_max >= 1 /\ e.earnings_max >= 1}

\* Lines 61-72 and 350: the value every widget has before it is touched.
Defaults(d) ==
    LET e == Sidebar([Unset EXCEPT !.df = d]) IN
    [selected_countries |-> {}, selected_types |-> {},
     min_subs |-> 0, min_views |-> 0,
     earnings_range |-> <<0, e.earnings_max>>,
     leaderboard_type |-> "Most Subscribers"]

Init ==
    /\ file \in SourceFiles
    /\ cache = <<>>
    /\ widgets = [selected_countries |-> {}, selected_types |-> {},
                  min_subs |-> 0, min_views |-> 0,
                  earnings_range |-> <<0, 0>>,
                  leaderboard_type |-> "Most Subscribers"]
    /\ env = Unset
    /\ runs = 0
    /\ parses = 0
    /\ on_disk = <<>>
    /\ edits = 0
    /\ restarts = 0

\* load_data without @st.cache_data: the file is read and parsed on every call.
LoadedUncached == load_data(file)

\* Line 34 under @st.cache_data: the cached frame when there is one, else
\* the file read and parsed.
Loaded == IF cache # <<>> THEN cache[1] ELSE load_data(file)

\* One top-to-bottom run of the script with the widget values w.
Rerun(w) ==
    /\ runs < MaxRuns
    /\ cache' = <<Loaded>>
    /\ widgets' = w
    /\ \E order \in Orders(ApplyFilters(Loaded, w)) :
          env' = Script(Loaded, w, order)
    /\ runs' = runs + 1
    /\ parses' = IF cache = <<>> THEN parses + 1 ELSE parses
    /\ on_disk' = file
    /\ UNCHANGED <<file, edits, restarts>>

\* The browser opens the page: the first run, every widget at its default.
FirstRun ==
    /\ runs = 0
    /\ Rerun(Defaults(Loaded))

\* The user changes the Countries multiselect.
SelectCountries ==
    /\ runs >= 1
    /\ \E S \in SUBSET env.countries :
          /\ S # widgets.selected_countries
          /\ Rerun([widgets EXCEPT !.selected_countries = S])

\* The user changes the Channel Types multiselect.
SelectTypes ==
    /\ runs >= 1
    /\ \E S \in SUBSET env.channel_types :
          /\ S # widgets.selected_types
          /\ Rerun([widgets EXCEPT !.selected_types = S])

\* The user moves the Min Subscribers (M) slider.
SlideMinSubs ==
    /\ runs >= 1
    /\ \E v \in 0..env.subs_max :
          /\ v # widgets.min_subs
          /\ Rerun([widgets EXCEPT !.min_subs = v])

\* The user moves the Min Video Views (B) slider.
SlideMinViews ==
    /\ runs >= 1
    /\ \E v \in 0..env.views_max :
          /\ v # widgets.min_views
          /\ Rerun([widgets EXCEPT !.min_views = v])

\* The user moves an end of the Monthly Earnings Range ($K) slider.
SlideEarningsRange ==
    /\ runs >= 1
    /\ \E lo, hi \in 0..env.earnings_max :
          /\ lo <= hi
          /\ <<lo, hi>> # widgets.earnings_range
          /\ Rerun([widgets EXCEPT !.earnings_range = <<lo, hi>>])

\* The user picks another leaderboard.
ChooseLeaderboard ==
    /\ runs >= 1
    /\ \E t \in LeaderboardTypes :
          /\ t # widgets.leaderboard_type
          /\ Rerun([widgets EXCEPT !.leaderboard_type = t])

Next ==
    \/ FirstRun
    \/ SelectCountries
    \/ SelectTypes
    \/ SlideMinSubs
    \/ SlideMinViews
    \/ SlideEarningsRange
    \/ ChooseLeaderboard

Spec == Init /\ [][Next]_vars

\* What a rewrite of the CSV file leaves on disk: the file without its
\* last row.
Rewrites(f) ==
    {t \in {SubSeq(f, 1, Len(f) - 1)} : t \in SourceFiles}

\* Somebody rewrites "Global YouTube Statistics.csv" while the server runs.
\* Nothing in the script watches the file.
EditFile ==
    /\ edits < MaxEdits
    /\ \E t \in Rewrites(file) : file' = t
    /\ edits' = edits + 1
    /\ UNCHANGED <<cache, widgets, env, runs, parses, on_disk, restarts>>

\* The server process is restarted: the cache of st.cache_data and the
\* session are gone, the file on disk stays.
Restart ==
    /\ restarts < MaxRestarts
    /\ cache # <<>>
    /\ cache' = <<>>
    /\ widgets' = [selected_countries |-> {}, selected_types |-> {},
                   min_subs |-> 0, min_views |-> 0,
                   earnings_range |-> <<0, 0>>,
                   leaderboard_type |-> "Most Subscribers"]
    /\ env' = Unset
    /\ runs' = 0
    /\ on_disk' = <<>>
    /\ restarts' = restarts + 1
    /\ UNCHANGED <<file, parses, edits>>

\* The dashboard over the lifetime of its server: the user's interactions,
\* rewrites of the file and restarts of the process.
NextLifetime ==
    \/ FirstRun
    \/ SelectCountries
    \/ SelectTypes
    \/ SlideMinSubs
    \/ SlideMinViews
    \/ SlideEarningsRange
    \/ ChooseLeaderboard
    \/ EditFile
    \/ Restart

SpecLifetime == Init /\ [][NextLifetime]_vars

\* ----------------------------------------------------------------- claims
\* The rows of a frame.
Rows(f) == {f[i] : i \in 1..Len(f)}

\* Every widget is where the sidebar first puts it: nothing selected, both
\* minimums 0, the earnings range from 0 to the slider's upper end.
Unrestricted ==
    /\ widgets.selected_countries = {}
    /\ widgets.selected_types = {}
    /\ widgets.min_subs = 0
    /\ widgets.min_views = 0
    /\ widgets.earnings_range = <<0, env.earnings_max>>

\* C1: with fully unrestricted criteria the filtered view is the base table,
\* row for row and in the same order.
C1_UnrestrictedIsIdentity ==
    (runs >= 1 /\ Unrestricted) => filtered_df = df

\* The numeric columns an aggregate is taken of.
AggregatedColumns ==
    {"subscribers", "video_views", "uploads", "avg_monthly_earnings",
     "engagement_rate"}

\* C2: on an empty filtered view mean, median, max, min and sum are missing,
\* count is zero, and the run reaches its end without an exception.
C2_EmptyViewNeverRaises ==
    (runs >= 1 /\ filtered_df = <<>>) =>
        /\ env.exc = "none"
        /\ \A c \in AggregatedColumns :
              LET xs == Col(filtered_df, c) IN
              /\ isna(FMean(xs)) /\ isna(FMedian(xs))
              /\ isna(FMax(xs)) /\ isna(FMin(xs))
              /\ isna(FSum(xs))
              /\ FCount(xs) = 0

\* C3: every row's calculated fields follow the documented formulas when the
\* operands are present and the denominator is not zero, and are missing
\* when an operand is missing or the denominator is zero.
C3_DerivedFields ==
    \A i \in 1..Len(df) :
        LET r == df[i]
            lm == r.lowest_monthly_earnings
            hm == r.highest_monthly_earnings
            ly == r.lowest_yearly_earnings
            hy == r.highest_yearly_earnings
            vv == r.video_views
            up == r.uploads
            v30 == r.video_views_for_the_last_30_days
        IN
        /\ IF notna(lm) /\ notna(hm)
           THEN r.avg_monthly_earnings = Frac(lm.n + hm.n, 2)
           ELSE isna(r.avg_monthly_earnings)
        /\ IF notna(ly) /\ notna(hy)
           THEN r.avg_yearly_earnings = Frac(ly.n + hy.n, 2)
           ELSE isna(r.avg_yearly_earnings)
        /\ IF notna(vv) /\ notna(up) /\ up.n # 0
           THEN r.views_per_video = Frac(vv.n, up.n)
           ELSE isna(r.views_per_video)
        /\ IF notna(v30) /\ notna(vv) /\ vv.n # 0
           THEN r.engagement_rate = FScale(Frac(v30.n, vv.n), PERCENT)
           ELSE isna(r.engagement_rate)

\* x >= units for a cell x and an integer number of units, by integer
\* arithmetic: a missing cell is below every bound.
AtLeast(x, units) ==
    \/ x.k = "inf"
    \/ (x.k = "num" /\ x.n >= units * x.d)

AtMost(x, units) == x.k = "num" /\ x.n <= units * x.d

\* Row r satisfies every active criterion of the widget values w.
Satisfies(r, w) ==
    /\ (w.selected_countries # {} => r.country \in w.selected_countries)
    /\ (w.selected_types # {} => r.channel_type \in w.selected_types)
    /\ AtLeast(r.subscribers, w.min_subs * MILLION)
    /\ AtLeast(r.video_views, w.min_views * BILLION)
    /\ AtLeast(r.highest_monthly_earnings, w.earnings_range[1] * THOUSAND)
    /\ AtMost(r.highest_monthly_earnings, w.earnings_range[2] * THOUSAND)

\* The criteria a second filter is taken from: the defaults and every
\* change of one widget the sidebar of this session offers.
SecondCriteria ==
    LET w0 == Defaults(df) IN
    {w0}
    \cup {[w0 EXCEPT !.selected_countries = S] : S \in SUBSET env.countries}
    \cup {[w0 EXCEPT !.selected_types = S] : S \in SUBSET env.channel_types}
    \cup {[w0 EXCEPT !.min_subs = v] : v \in 0..env.subs_max}
    \cup {[w0 EXCEPT !.min_views = v] : v \in 0..env.views_max}
    \cup {[w0 EXCEPT !.earnings_range = <<lo, hi>>] :
             <<lo, hi>> \in {x \in (0..env.earnings_max) \X (0..env.earnings_max) :
                                x[1] <= x[2]}}

Larger(a, b) == IF a >= b THEN a ELSE b
Smaller(a, b) == IF a <= b THEN a ELSE b

\* The set selection that asks for both a and b (an empty selection asks
\* for nothing); it exists unless a and b are disjoint selections.
Joinable(a, b) == a = {} \/ b = {} \/ a \cap b # {}
JoinSets(a, b) == IF a = {} THEN b ELSE IF b = {} THEN a ELSE a \cap b

\* The widget values that ask for what w1 asks and for what w2 asks.
Conjoinable(w1, w2) ==
    /\ Joinable(w1.selected_countries, w2.selected_countries)
    /\ Joinable(w1.selected_types, w2.selected_types)
    /\ Larger(w1.earnings_range[1], w2.earnings_range[1])
          <= Smaller(w1.earnings_range[2], w2.earnings_range[2])

Conjoin(w1, w2) ==
    [selected_countries |-> JoinSets(w1.selected_countries, w2.selected_countries),
     selected_types |-> JoinSets(w1.selected_types, w2.selected_types),
     min_subs |-> Larger(w1.min_subs, w2.min_subs),
     min_views |-> Larger(w1.min_views, w2.min_views),
     earnings_range |-> <<Larger(w1.earnings_range[1], w2.earnings_range[1]),
                          Smaller(w1.earnings_range[2], w2.earnings_range[2])>>,
     leaderboard_type |-> w1.leaderboard_type]

\* C4: filters compose by intersection: the view holds exactly the rows of
\* the base table that satisfy every active criterion, in order; filtering
\* the view again with second criteria gives the rows that satisfy both,
\* which is what one filter with the conjoined criteria gives.
C4_FiltersCompose ==
    runs >= 1 =>
        /\ filtered_df = SelectSeq(df, LAMBDA r : Satisfies(r, widgets))
        /\ \A w2 \in SecondCriteria :
              /\ ApplyFilters(filtered_df, w2)
                   = SelectSeq(df, LAMBDA r : Satisfies(r, widgets) /\ Satisfies(r, w2))
              /\ Conjoinable(widgets, w2) =>
                    ApplyFilters(df, Conjoin(widgets, w2))
                      = ApplyFilters(filtered_df, w2)

\* C4's case: the session's criteria restrict one thing and drop a row, and
\* second criteria restrict another and drop a row of the view.
C4_Witness ==
    /\ runs >= 2
    /\ widgets.selected_countries # {}
    /\ filtered_df # <<>>
    /\ \E w2 \in SecondCriteria :
          /\ w2.min_subs > 0
          /\ ApplyFilters(filtered_df, w2) # <<>>
          /\ Len(ApplyFilters(filtered_df, w2)) < Len(filtered_df)
          /\ Len(filtered_df) < Len(ApplyFilters(df, Defaults(df)))

\* The rows of the base table that pass the two multiselects.
PassSelections(r) ==
    /\ (widgets.selected_countries # {} => r.country \in widgets.selected_countries)
    /\ (widgets.selected_types # {} => r.channel_type \in widgets.selected_types)

\* The spec's example table: A with 1,000,000 subscribers, B with none
\* parsed, C with 2,000,000.
ExampleFile == <<RowA, RowB, RowC>>

\* C5: a row passes the minimum-subscribers (resp. minimum-views) criterion
\* iff its count is present and at least the slider value scaled to units;
\* a missing count passes no bound.  On the example table a minimum of
\* 500,000 subscribers keeps A and C.
C5_MinimumBounds ==
    /\ runs >= 1 =>
          /\ \A i \in 1..Len(df) :
                LET r == df[i] IN
                /\ \A v \in 0..env.subs_max :
                      SubsMask(r, v * MILLION)
                        <=> (notna(r.subscribers) /\ r.subscribers.n >= v * MILLION * r.subscribers.d)
                /\ \A v \in 0..env.views_max :
                      ViewsMask(r, v * BILLION)
                        <=> (notna(r.video_views) /\ r.video_views.n >= v * BILLION * r.video_views.d)
                /\ r \in Rows(filtered_df) <=>
                      /\ PassSelections(r)
                      /\ notna(r.subscribers)
                      /\ r.subscribers.n >= widgets.min_subs * MILLION * r.subscribers.d
                      /\ notna(r.video_views)
                      /\ r.video_views.n >= widgets.min_views * BILLION * r.video_views.d
                      /\ EarningsMask(r, widgets.earnings_range[1] * THOUSAND,
                                      widgets.earnings_range[2] * THOUSAND)
    /\ LET t == load_data(ExampleFile) IN
       SelectSeq(t, LAMBDA r : SubsMask(r, 500000)) = <<t[1], t[3]>>

\* C5's case: the example table with the slider at 1 (million): B, whose
\* count is missing, is dropped, A at exactly the bound and C are kept.
C5_Witness ==
    /\ file = ExampleFile
    /\ widgets.min_subs = 1
    /\ Col(filtered_df, "youtuber") = <<"A", "C">>

\* The earnings range is the slider's full extent.
FullRange == widgets.earnings_range = <<0, env.earnings_max>>

\* C6: a row passes the earnings criterion iff its highest monthly earnings
\* lie in [low, high], both ends included; a row without them passes
\* exactly when the range is the full unrestricted one.
C6_EarningsRange ==
    runs >= 1 =>
        \A i \in 1..Len(df) :
            LET hme == df[i].highest_monthly_earnings
                low == widgets.earnings_range[1] * THOUSAND
                high == widgets.earnings_range[2] * THOUSAND
            IN EarningsMask(df[i], low, high) <=>
                  IF notna(hme) THEN low * hme.d <= hme.n /\ hme.n <= high * hme.d
                  ELSE FullRange

\* C7: an empty selection excludes no row, whatever its country or channel
\* type, a missing one included; a selection that is not empty keeps the
\* rows whose country (resp. channel type) is in it.
C7_EmptyMeansUnrestricted ==
    runs >= 1 =>
        /\ FilterCountries(df, {}) = df
        /\ FilterTypes(df, {}) = df
        /\ \A S \in SUBSET env.countries : S # {} =>
              FilterCountries(df, S) = SelectSeq(df, LAMBDA r : r.country \in S)
        /\ \A S \in SUBSET env.channel_types : S # {} =>
              FilterTypes(df, S) = SelectSeq(df, LAMBDA r : r.channel_type \in S)
        /\ \A i \in 1..Len(df) :
              df[i] \in Rows(filtered_df) <=>
                  /\ PassSelections(df[i])
                  /\ NumericMask(df[i], widgets.min_subs, widgets.min_views,
                                 widgets.earnings_range)

\* C7's case: nothing is selected and a row without country and channel
\* type is in the view.
C7_Witness ==
    /\ runs >= 1
    /\ widgets.selected_countries = {}
    /\ widgets.selected_types = {}
    /\ \E r \in Rows(filtered_df) : r.country = NA /\ r.channel_type = NA
    /\ \E r \in Rows(filtered_df) : r.country # NA

\* The position of row r in frame f.
PositionIn(f, r) == CHOOSE i \in 1..Len(f) : f[i] = r

\* C8: the view is a subsequence of the base table: its rows are rows of
\* the base table, none more often than there, in the same relative order.
C8_StableFilter ==
    runs >= 1 =>
        /\ \A i \in 1..Len(filtered_df) : filtered_df[i] \in Rows(df)
        /\ \A r \in Rows(filtered_df) :
              Cardinality({i \in 1..Len(filtered_df) : filtered_df[i] = r})
                <= Cardinality({i \in 1..Len(df) : df[i] = r})
        /\ \A i, j \in 1..Len(filtered_df) :
              i < j => PositionIn(df, filtered_df[i]) < PositionIn(df, filtered_df[j])

\* C8's case: a row between two kept rows was dropped.
C8_Witness ==
    /\ runs >= 2
    /\ Len(filtered_df) = 2
    /\ PositionIn(df, filtered_df[1]) = 1
    /\ PositionIn(df, filtered_df[2]) = 3

\* C9: the base table is never written after the load: after every run the
\* script's df is the frame load_data returned and cached, which is the
\* parsed file.
C9_BaseTableUntouched ==
    runs >= 1 => (df = cache[1] /\ df = load_data(file))

\* C9's case: after an interaction, the top earners and the leaderboard were
\* built and their numeric columns rewritten as text.
C9_Witness ==
    /\ runs >= 2
    /\ env.top_earners # <<>>
    /\ env.leaderboard_display # <<>>
    /\ \E i \in 1..Len(env.top_earners) : \E r \in Rows(df) :
          /\ r.index = env.top_earners[i].index
          /\ r.subscribers # env.top_earners[i].subscribers
    /\ df = cache[1]

\* Two cells are equal numbers.
Tied(x, y) == FGe(x, y) /\ FGe(y, x)

\* t is in non-increasing order of column c.
NonIncreasing(t, c) ==
    \A i, j \in 1..Len(t) :
        (i < j /\ notna(t[i][c]) /\ notna(t[j][c])) => FGe(t[i][c], t[j][c])

\* The rows of t without a value in column c come after all others.
MissingLast(t, c) ==
    \A i, j \in 1..Len(t) : (i < j /\ isna(t[i][c])) => isna(t[j][c])

\* Rows of t that are tied in column c are in the order they have in f.
TiesInOrder(t, f, c) ==
    \A i, j \in 1..Len(t) :
        (i < j /\ Tied(t[i][c], t[j][c])) =>
            PositionIn(f, t[i]) < PositionIn(f, t[j])

\* Every row of f is in t exactly once.
EveryRowOnce(t, f) ==
    /\ Len(t) = Len(f)
    /\ \A r \in Rows(f) : Cardinality({i \in 1..Len(t) : t[i] = r}) = 1

\* t holds n distinct rows of f, and of the rows tied in column c the
\* earlier ones of f.
FirstOccurrences(t, f, n, c) ==
    /\ Len(t) = n
    /\ Rows(t) \subseteq Rows(f)
    /\ Cardinality(Rows(t)) = n
    /\ \A r \in Rows(t) : \A u \in Rows(f) \ Rows(t) :
          /\ notna(r[c]) \/ isna(u[c])
          /\ (notna(r[c]) /\ notna(u[c])) => FGe(r[c], u[c])
          /\ Tied(r[c], u[c]) => PositionIn(f, r) < PositionIn(f, u)

\* The claim's statement of top-N for the result t of nlargest(n, c) on f.
TopNAsClaimed(t, f, n, c) ==
    /\ NonIncreasing(t, c)
    /\ MissingLast(t, c)
    /\ TiesInOrder(t, f, c)
    /\ n >= Len(f) => EveryRowOnce(t, f)

TopNAmended(t, f, n, c) ==
    /\ NonIncreasing(t, c)
    /\ MissingLast(t, c)
    /\ IF n >= Len(f) THEN EveryRowOnce(t, f)
       ELSE TiesInOrder(t, f, c) /\ FirstOccurrences(t, f, n, c)

\* The values of N the script asks for, and 2.
TopNs == {1, 2, 5, TOP10, TOP15, TOP20}

C11_LoadMemoized ==
    [][/\ parses' <= restarts' + 1
       /\ (cache # <<>> /\ cache' # <<>>) =>
              /\ parses' = parses
              /\ cache' = cache
              /\ env'.df = cache[1]
              /\ env'.df = env.df
       /\ parses' # parses => (cache = <<>> /\ parses' = parses + 1)
       /\ (cache # <<>> /\ cache' = <<>>) => restarts' = restarts + 1]_vars

\* A second run of the session started after the file had been rewritten,
\* and still worked on the table parsed from the old contents.
C11_Witness ==
    /\ runs >= 2
    /\ edits >= 1
    /\ parses = 1
    /\ on_disk # <<>>
    /\ load_data(on_disk) # df


\* ---------------------------------------------------------------------
\* The records of the view whose field c holds the group value v.
Members(c, v) == {i \in 1..Len(filtered_df) : filtered_df[i][c] = v}

\* The mean of field col over the records of group v of field c that have
\* a value: missing when none has one.
GroupMean(c, v, col) ==
    LET P == {i \in Members(c, v) : notna(filtered_df[i][col])} IN
    IF P = {} THEN NaN
    ELSE FMean(Col(SelectSeq(filtered_df,
                             LAMBDA r : r[c] = v /\ notna(r[col])), col))

\* The two group-by tables of a run have one row per distinct group value
\* of the view, and the means of each row are those of its group (as the
\* tables show them: rounded, the category table's as text).
GroupMeans ==
    /\ Len(env.country_stats) = Cardinality(Present(filtered_df, "country"))
    /\ {r.country : r \in Rows(env.country_stats)} = Present(filtered_df, "country")
    /\ \A r \in Rows(env.country_stats) :
          /\ r.Avg_Subscribers =
                 round(GroupMean("country", r.country, "subscribers"), 0)
          /\ r.Avg_Monthly_Earnings =
                 round(GroupMean("country", r.country, "avg_monthly_earnings"), 0)
    /\ env.exc = "none" =>
          /\ DOMAIN env.category_stats = Present(filtered_df, "channel_type")
          /\ \A v \in DOMAIN env.category_stats :
                LET r == env.category_stats[v]
                    earn == GroupMean("channel_type", v, "avg_monthly_earnings")
                IN /\ r.Avg_Subscribers =
                          FmtMillions(round(GroupMean("channel_type", v, "subscribers"), 2))
                   /\ r.Avg_Earnings =
                          IF isna(earn) THEN NotAvailable ELSE FmtMoney(round(earn, 2))
                   /\ r.Avg_Videos =
                          round(GroupMean("channel_type", v, "uploads"), 2)

\* The count of every row of the two group-by tables is the number of
\* records of the view in its group.
GroupCounts ==
    /\ \A r \in Rows(env.country_stats) :
          r.Channel_Count = Cardinality(Members("country", r.country))
    /\ env.exc = "none" =>
          \A v \in DOMAIN env.category_stats :
              env.category_stats[v].Count = Cardinality(Members("channel_type", v))

\* C12. Group-by over country or channel type of any filtered view gives one
\* row per distinct group value; its count is the number of records of the
\* view with that group value, whether or not their channel name or other
\* fields are missing; its mean of each numeric field is taken over the
\* group's values that are present and is missing when none is.
C12_GroupBy == runs >= 1 => (GroupMeans /\ GroupCounts)


\* ---------------------------------------------------------------------
\* The view the last run rendered is the filter of the base table with the
\* widget values as they are now, whatever was selected before.
ViewFromCriteria ==
    /\ cache # <<>>
    /\ df = cache[1]
    /\ filtered_df = ApplyFilters(cache[1], widgets)

\* The last run was one pass from the first statement to the last: every
\* script variable is what the whole script computes from the base table
\* and the widget values, and no statement raised.
CompletePass ==
    /\ env.exc = "none"
    /\ \E order \in Orders(filtered_df) : env = Script(cache[1], widgets, order)

\* C13. After any sequence of interactions the filtered view of the render
\* pass is the filter applied to the base table with the criteria selected
\* now, independent of earlier criteria, views, leaderboards or exports;
\* and every interaction has run one complete filter, aggregate and render
\* pass, with nothing left pending.
C13_FreshViewCompletePass == runs >= 1 => (ViewFromCriteria /\ CompletePass)

====
